---- MODULE Spec2Model ----
(***************************************************************************)
(* rocPRIM block_scan_reduce_then_scan<T, BlockSize>: one collective call  *)
(* of a block-wide scan by the BlockSize threads of one group.             *)
(*                                                                         *)
(* T is the free monoid over integer tokens and scan_op is concatenation:  *)
(* it is associative and not commutative, and the value a thread holds     *)
(* spells out the operands that were combined and their order.  The code   *)
(* only copies values and applies scan_op, so every other associative      *)
(* operator and input assignment is a homomorphic image of this one.       *)
(*                                                                         *)
(* Threads are interleaved one shared-memory access group at a time and    *)
(* meet at the barriers (::rocprim::syncthreads).  The lane exchange of    *)
(* the warp scan is a collective step of the leaders.                      *)
(***************************************************************************)
EXTENDS Integers, Sequences, FiniteSets, TLC

\* ------------------------------------------------------------------ bounds
MaxBlockSize == 3      \* BlockSize ranges over 1..MaxBlockSize
MaxItems     == 2      \* ItemsPerThread ranges over 1..MaxItems
MaxLogWarp   == 2      \* warp_size() ranges over 2^0..2^MaxLogWarp
MaxLogBanks  == 1      \* banks_no_ ranges over 2^0..2^MaxLogBanks
MaxDim       == 3      \* every group dimension ranges over 1..MaxDim
MaxBanks     == 3      \* banks_no_ of any value ranges over 1..MaxBanks

VARIABLES
    cfg,              \* template parameters and the operation called
    input,            \* input[t]: the items thread t passes (length ItemsPerThread)
    storage,          \* storage.threads
    pc,               \* pc[t]: where thread t is in the call
    thread_input,     \* thread_input[t] (scalar form: the input/output scalar)
    thread_reduction, \* thread_reduction[t], the leaders' register
    output,           \* output[t]: the items thread t gets back
    reduction,        \* reduction[t]: the block reduction thread t read
    block_prefix,     \* block_prefix[t]: what get_block_prefix returned to t
    cb_calls,         \* cb_calls[t]: invocations of prefix_callback_op by t
    cb_arg,           \* cb_arg[t]: argument of t's last invocation
    accessed,         \* the accesses to storage.threads since the last barrier
    group_size,       \* hc_get_group_size(0..2)
    workitem_a,       \* hc_get_workitem_id(0..2) of one work-item
    workitem_b,       \* hc_get_workitem_id(0..2) of another work-item
    flat_a,           \* flat_thread_id() of workitem_a
    flat_b            \* flat_thread_id() of workitem_b

scanVars == <<cfg, input, storage, pc, thread_input, thread_reduction, output,
              reduction, block_prefix, cb_calls, cb_arg, accessed>>
idxVars  == <<group_size, workitem_a, workitem_b, flat_a, flat_b>>
vars     == <<cfg, input, storage, pc, thread_input, thread_reduction, output,
              reduction, block_prefix, cb_calls, cb_arg, accessed,
              group_size, workitem_a, workitem_b, flat_a, flat_b>>

\* ------------------------------------------------------------------ values of T
Uninit  == <<>>                    \* a slot or register nobody has written
Garbage == {<< -100 >>, << -101 >>}  \* what a read of an unwritten slot may give
init    == << 0 >>                 \* the caller's init of exclusive_scan

scan_op(a, b) == a \o b

\* What thread t's prefix_callback_op returns: the callback objects are the
\* caller's, one per thread, and need not agree.
prefix_callback_op(t, block_reduction) == << -(t + 1) >>

RECURSIVE Pow2(_)
Pow2(n) == IF n = 0 THEN 1 ELSE 2 * Pow2(n - 1)

\* ------------------------------------------------------------------ intrinsics
is_power_of_two(x) == \E k \in 0..x : Pow2(k) = x

RECURSIVE next_power_of_two_from(_, _)
next_power_of_two_from(x, acc) ==
    IF acc >= x THEN acc ELSE next_power_of_two_from(x, 2 * acc)

next_power_of_two(x) == next_power_of_two_from(x, 1)

\* The sub-group width: the smaller of the block size and the hardware width,
\* kept a power of two as the warp scan requires.
get_min_warp_size(block_size, max_warp_size) ==
    IF block_size >= max_warp_size THEN max_warp_size
    ELSE next_power_of_two(block_size)

warp_size == cfg.warp_size

warp_id_undivided(flat_tid) == flat_tid

warp_id(flat_tid) == flat_tid \div warp_size

\* ------------------------------------------------------------------ class constants
BlockSize      == cfg.BlockSize
ItemsPerThread == cfg.ItemsPerThread
banks_no_      == cfg.banks_no_

thread_reduction_size_of(block_size, hw) == (block_size + hw - 1) \div hw

thread_reduction_size_ == thread_reduction_size_of(BlockSize, warp_size)

warp_size_ == get_min_warp_size(BlockSize, warp_size)

has_bank_conflicts_ ==
    is_power_of_two(thread_reduction_size_) /\ thread_reduction_size_ > 1

bank_conflicts_padding ==
    IF has_bank_conflicts_
    THEN (warp_size_ * thread_reduction_size_) \div banks_no_
    ELSE 0

storage_length_unpadded == warp_size_ * thread_reduction_size_

storage_length == warp_size_ * thread_reduction_size_ + bank_conflicts_padding

index_off(n) == IF has_bank_conflicts_ THEN n + ((n + 1) \div banks_no_) ELSE n

index(n) == IF has_bank_conflicts_ THEN n + (n \div banks_no_) ELSE n

Threads == 0..(BlockSize - 1)
Leaders == {t \in Threads : t < warp_size_}

\* ------------------------------------------------------------------ storage access
in_bounds(i) == i >= 0 /\ i < storage_length

\* The values a read of storage.threads[i] may give.
load(i) ==
    IF in_bounds(i) /\ storage[i] # Uninit THEN {storage[i]} ELSE Garbage

store(st, i, v) == IF in_bounds(i) THEN [st EXCEPT ![i] = v] ELSE st

\* Thread t's reads (storage.threads[i] as a value) and writes (as the target
\* of an assignment) of the slots in slots.
reads(t, slots)  == {[thread |-> t, slot |-> i, write |-> FALSE] : i \in slots}
writes(t, slots) == {[thread |-> t, slot |-> i, write |-> TRUE] : i \in slots}

\* ------------------------------------------------------------------ thread-local loops
RECURSIVE reduce_items(_, _)
\* T thread_input = input[0]; for i in 1..: thread_input = scan_op(thread_input, input[i])
reduce_items(items, n) ==
    IF n = 1 THEN items[1] ELSE scan_op(reduce_items(items, n - 1), items[n])

RECURSIVE inclusive_items(_, _, _)
\* output[0] = first; output[i] = scan_op(output[i-1], input[i])
inclusive_items(first, items, n) ==
    IF n = 1 THEN <<first>>
    ELSE LET prev == inclusive_items(first, items, n - 1)
         IN  Append(prev, scan_op(prev[n - 1], items[n]))

RECURSIVE exclusive_items(_, _, _)
\* output[0] = exclusive; exclusive = scan_op(exclusive, prev); prev = input[i]
exclusive_items(exclusive, items, n) ==
    IF n = 1 THEN <<exclusive>>
    ELSE LET prev == exclusive_items(exclusive, items, n - 1)
         IN  Append(prev, scan_op(prev[n - 1], items[n - 1]))

\* ------------------------------------------------------------------ warp scan
\* warp_shuffle_up(v, delta, width): lane l gets the value of lane l - delta
\* of its logical warp, or keeps its own when there is no such lane.
warp_shuffle_up(vals, delta, width) ==
    [l \in DOMAIN vals |->
        IF (l % width) >= delta THEN vals[l - delta] ELSE vals[l]]

RECURSIVE warp_scan_shuffle(_, _, _)
\* warp_scan_shuffle<T, width>::inclusive_scan: offsets 1, 2, 4, ... < width
warp_scan_shuffle(vals, offset, width) ==
    IF offset >= width THEN vals
    ELSE LET value == warp_shuffle_up(vals, offset, width)
             next  == [l \in DOMAIN vals |->
                          IF (l % width) >= offset
                          THEN scan_op(value[l], vals[l])
                          ELSE vals[l]]
         IN  warp_scan_shuffle(next, 2 * offset, width)

\* ------------------------------------------------------------------ inclusive_scan_base
idx_start_unscaled(flat_tid) == index(flat_tid)

idx_start_scaled_after(flat_tid) == index(flat_tid) * thread_reduction_size_

\* const unsigned int idx_start = index(flat_tid * thread_reduction_size_);
idx_start(flat_tid) == index(flat_tid * thread_reduction_size_)

leader_range_through_idx_end(flat_tid) ==
    idx_start(flat_tid)..(idx_start(flat_tid) + thread_reduction_size_)

\* The slots idx_start .. idx_end - 1 of a leader, idx_end = idx_start + thread_reduction_size_.
leader_range(flat_tid) ==
    idx_start(flat_tid)..(idx_start(flat_tid) + thread_reduction_size_ - 1)

RECURSIVE reduce_range(_, _)
\* thread_reduction = storage.threads[idx_start];
\* for i in idx_start+1 .. idx_end-1: thread_reduction = scan_op(thread_reduction, storage.threads[i])
\* The set of values the loop may end with over the n slots from i.
reduce_range(i, n) ==
    IF n = 1 THEN load(i)
    ELSE {scan_op(a, b) : a \in reduce_range(i, n - 1), b \in load(i + n - 1)}

\* thread_reduction = flat_tid == 0 ? input : scan_op(thread_reduction, storage.threads[idx_start])
include_warp_prefix_swapped(flat_tid, prefix, own, first) ==
    IF flat_tid = 0 THEN own ELSE scan_op(first, prefix)

include_warp_prefix(flat_tid, prefix, own, first) ==
    IF flat_tid = 0 THEN own ELSE scan_op(prefix, first)

RECURSIVE propagate_range_stale(_, _, _, _)
propagate_range_stale(st, i, k, carried) ==
    IF k = 0 THEN {st}
    ELSE UNION { propagate_range_stale(store(st, i, scan_op(carried, v)), i + 1,
                                       k - 1, carried) : v \in load(i) }

RECURSIVE propagate_range(_, _, _, _)
\* for i in idx_start+1 .. idx_end-1:
\*     thread_reduction = scan_op(thread_reduction, storage.threads[i]); storage.threads[i] = thread_reduction
\* The set of scratch contents the loop may leave, from slot i, k slots to go.
propagate_range(st, i, k, carried) ==
    IF k = 0 THEN {st}
    ELSE UNION { propagate_range(store(st, i, scan_op(carried, v)), i + 1, k - 1,
                                 scan_op(carried, v)) : v \in load(i) }

\* ------------------------------------------------------------------ configurations
WarpSizes == {Pow2(k) : k \in 0..MaxLogWarp}
BanksNos  == {Pow2(k) : k \in 0..MaxLogBanks}

\* The calls of one group.  The LDS has a power-of-two number of banks that
\* the leaders' run length divides whenever it is a power of two (32 banks
\* against at most 1024 / 64 = 16 slots per leader on the hardware).
Configs ==
    {c \in [BlockSize : 1..MaxBlockSize, ItemsPerThread : 1..MaxItems,
            warp_size : WarpSizes, banks_no_ : BanksNos,
            kind : {"inclusive", "exclusive"}, form : {"scalar", "array"},
            extra : {"plain", "reduction", "callback"}] :
        /\ c.form = "scalar" => c.ItemsPerThread = 1
        /\ LET trs == thread_reduction_size_of(c.BlockSize, c.warp_size)
           IN  (is_power_of_two(trs) /\ trs > 1) => c.banks_no_ % trs = 0}

InputOrders == {"ascending", "descending", "constant"}

\* The value at flattened position k (of n) of an input assignment.
input_value(order, k, n) ==
    CASE order = "ascending"  -> << k + 1 >>
      [] order = "descending" -> << n - k >>
      [] order = "constant"   -> << 1 >>

IdleGroup == <<1, 1, 1>>
IdleItem  == <<0, 0, 0>>

\* The group enters a call of one of the configurations cfgs.
InitOf(cfgs) ==
    /\ cfg \in cfgs
    /\ \E order \in InputOrders :
          input = [t \in 0..(cfg.BlockSize - 1) |->
                      [i \in 1..cfg.ItemsPerThread |->
                          input_value(order, t * cfg.ItemsPerThread + i - 1,
                                      cfg.BlockSize * cfg.ItemsPerThread)]]
    /\ storage = [i \in 0..(storage_length - 1) |-> Uninit]
    /\ pc = [t \in Threads |-> "stage"]
    /\ thread_input = [t \in Threads |-> Uninit]
    /\ thread_reduction = [t \in Threads |-> Uninit]
    /\ output = [t \in Threads |-> [i \in 1..cfg.ItemsPerThread |-> Uninit]]
    /\ reduction = [t \in Threads |-> Uninit]
    /\ block_prefix = [t \in Threads |-> Uninit]
    /\ cb_calls = [t \in Threads |-> 0]
    /\ cb_arg = [t \in Threads |-> Uninit]
    /\ accessed = {}
    /\ group_size = IdleGroup
    /\ workitem_a = IdleItem
    /\ workitem_b = IdleItem
    /\ flat_a = -1
    /\ flat_b = -1

Init == InitOf(Configs)

\* ------------------------------------------------------------------ the call, thread by thread
\* Local reduction of the thread's items, then
\* storage.threads[index(flat_tid)] = input; up to the first syncthreads().
Stage(t) ==
    /\ pc[t] = "stage"
    /\ LET scalar == IF cfg.form = "scalar" THEN input[t][1]
                     ELSE reduce_items(input[t], ItemsPerThread)
       IN  /\ thread_input' = [thread_input EXCEPT ![t] = scalar]
           /\ storage' = store(storage, index(t), scalar)
    /\ pc' = [pc EXCEPT ![t] = "b1"]
    /\ UNCHANGED <<cfg, input, thread_reduction, output, reduction,
                   block_prefix, cb_calls, cb_arg>>
    /\ accessed' = accessed \cup writes(t, {index(t)})
    /\ UNCHANGED idxVars

\* The first syncthreads() of inclusive_scan_base; then if(flat_tid < warp_size_).
Barrier1_non_leaders_return ==
    /\ \A t \in Threads : pc[t] = "b1"
    /\ pc' = [t \in Threads |-> IF t < warp_size_ THEN "reduce" ELSE "read"]
    /\ UNCHANGED <<cfg, input, storage, thread_input, thread_reduction, output,
                   reduction, block_prefix, cb_calls, cb_arg>>
    /\ accessed' = {}
    /\ UNCHANGED idxVars

Barrier1 ==
    /\ \A t \in Threads : pc[t] = "b1"
    /\ pc' = [t \in Threads |-> IF t < warp_size_ THEN "reduce" ELSE "b2"]
    /\ UNCHANGED <<cfg, input, storage, thread_input, thread_reduction, output,
                   reduction, block_prefix, cb_calls, cb_arg>>
    /\ accessed' = {}
    /\ UNCHANGED idxVars

\* A leader re-reduces its run of thread_reduction_size_ slots.
LeaderReduce(t) ==
    /\ pc[t] = "reduce"
    /\ \E r \in reduce_range(idx_start(t), thread_reduction_size_) :
          thread_reduction' = [thread_reduction EXCEPT ![t] = r]
    /\ pc' = [pc EXCEPT ![t] = "scan"]
    /\ UNCHANGED <<cfg, input, storage, thread_input, output, reduction,
                   block_prefix, cb_calls, cb_arg>>
    /\ accessed' = accessed \cup reads(t, leader_range(t))
    /\ UNCHANGED idxVars

WarpScan_unshifted ==
    /\ \A t \in Leaders : pc[t] = "scan"
    /\ LET lanes   == 0..(warp_size_ - 1)
           vals    == [l \in lanes |->
                          IF l \in Leaders THEN thread_reduction[l] ELSE Uninit]
           scanned == warp_scan_shuffle(vals, 1, warp_size_)
       IN  thread_reduction' =
               [t \in Threads |->
                   IF t \in Leaders THEN scanned[t] ELSE thread_reduction[t]]
    /\ pc' = [t \in Threads |-> IF t \in Leaders THEN "prop" ELSE pc[t]]
    /\ UNCHANGED <<cfg, input, storage, thread_input, output, reduction,
                   block_prefix, cb_calls, cb_arg>>
    /\ UNCHANGED accessed
    /\ UNCHANGED idxVars

\* warp_scan_prefix_type().inclusive_scan(...) and warp_shuffle_up(..., 1, warp_size_):
\* the lanes of the logical warp exchange their registers together.
WarpScan ==
    /\ \A t \in Leaders : pc[t] = "scan"
    /\ LET lanes   == 0..(warp_size_ - 1)
           vals    == [l \in lanes |->
                          IF l \in Leaders THEN thread_reduction[l] ELSE Uninit]
           scanned == warp_scan_shuffle(vals, 1, warp_size_)
           shifted == warp_shuffle_up(scanned, 1, warp_size_)
       IN  thread_reduction' =
               [t \in Threads |->
                   IF t \in Leaders THEN shifted[t] ELSE thread_reduction[t]]
    /\ pc' = [t \in Threads |-> IF t \in Leaders THEN "prop" ELSE pc[t]]
    /\ UNCHANGED <<cfg, input, storage, thread_input, output, reduction,
                   block_prefix, cb_calls, cb_arg>>
    /\ UNCHANGED accessed
    /\ UNCHANGED idxVars

\* A leader includes its warp prefix and writes the inclusive values of its run.
LeaderPropagate(t) ==
    /\ pc[t] = "prop"
    /\ \E first \in load(idx_start(t)) :
          LET carried == include_warp_prefix(t, thread_reduction[t],
                                             thread_input[t], first)
          IN  \E st \in propagate_range(store(storage, idx_start(t), carried),
                                        idx_start(t) + 1,
                                        thread_reduction_size_ - 1, carried) :
                 storage' = st
    /\ pc' = [pc EXCEPT ![t] = "b2"]
    /\ UNCHANGED <<cfg, input, thread_input, thread_reduction, output, reduction,
                   block_prefix, cb_calls, cb_arg>>
    /\ accessed' = accessed \cup reads(t, leader_range(t))
                              \cup writes(t, leader_range(t))
    /\ UNCHANGED idxVars

\* The second syncthreads() of inclusive_scan_base.
Barrier2 ==
    /\ \A t \in Threads : pc[t] = "b2"
    /\ pc' = [t \in Threads |-> "read"]
    /\ UNCHANGED <<cfg, input, storage, thread_input, thread_reduction, output,
                   reduction, block_prefix, cb_calls, cb_arg>>
    /\ accessed' = {}
    /\ UNCHANGED idxVars

\* ------------------------------------------------------------------ after inclusive_scan_base
\* The slot the block reduction is read from: storage.threads[index(BlockSize - 1)].
reduction_slot_first == index(0)

reduction_slot == index(BlockSize - 1)

\* storage.threads[index(flat_tid - 1)], which thread 0 does not read.
load_predecessor(flat_tid) ==
    IF flat_tid = 0 THEN {Uninit} ELSE load(index(flat_tid - 1))

\* inclusive_scan_impl: output = storage.threads[index(flat_tid)]
inclusive_scan_impl(flat_tid) == load(index(flat_tid))

exclusive_scan_impl_init_own(flat_tid) ==
    {IF flat_tid = 0 THEN init ELSE scan_op(init, v) : v \in load(index(flat_tid))}

\* exclusive_scan_impl with init:
\* output = flat_tid == 0 ? init : scan_op(init, storage.threads[index(flat_tid-1)])
exclusive_scan_impl_init(flat_tid) ==
    {IF flat_tid = 0 THEN init ELSE scan_op(init, v) : v \in load_predecessor(flat_tid)}

\* exclusive_scan_impl without init:
\* if(flat_tid > 0) output = storage.threads[index(flat_tid-1)]
exclusive_scan_impl(flat_tid, old) ==
    {IF flat_tid = 0 THEN old ELSE v : v \in load_predecessor(flat_tid)}

\* output[0] = flat_tid == 0 ? input[0] : scan_op(thread_input, input[0])
include_prefix(flat_tid, prefix, first) ==
    IF flat_tid = 0 THEN first ELSE scan_op(prefix, first)

\* The slots ReadBack reads: storage.threads[index(flat_tid)] in
\* inclusive_scan_impl, storage.threads[index(flat_tid-1)] of a thread other
\* than thread 0 in exclusive_scan_impl.
read_back_slots(flat_tid) ==
    IF cfg.form = "scalar" /\ cfg.kind = "inclusive" THEN {index(flat_tid)}
    ELSE IF flat_tid = 0 THEN {}
    ELSE {index(flat_tid - 1)}

\* The part of the public functions between inclusive_scan_base and the
\* reduction read or get_block_prefix: the thread reads its own inclusive value
\* (scalar inclusive_scan) or its predecessor's (everything else), and the
\* variants without a callback finish their outputs.
ReadBack(t) ==
    /\ pc[t] = "read"
    /\ CASE cfg.form = "scalar" /\ cfg.kind = "inclusive" ->
              /\ \E v \in inclusive_scan_impl(t) :
                    output' = [output EXCEPT ![t] = <<v>>]
              /\ UNCHANGED thread_input
         [] cfg.form = "scalar" /\ cfg.kind = "exclusive" /\ cfg.extra # "callback" ->
              /\ \E v \in exclusive_scan_impl_init(t) :
                    output' = [output EXCEPT ![t] = <<v>>]
              /\ UNCHANGED thread_input
         [] cfg.form = "scalar" /\ cfg.kind = "exclusive" /\ cfg.extra = "callback" ->
              /\ \E v \in exclusive_scan_impl(t, output[t][1]) :
                    output' = [output EXCEPT ![t] = <<v>>]
              /\ UNCHANGED thread_input
         [] cfg.form = "array" /\ cfg.kind = "inclusive" ->
              \E v \in exclusive_scan_impl(t, thread_input[t]) :
                 /\ thread_input' = [thread_input EXCEPT ![t] = v]
                 /\ output' =
                       IF cfg.extra = "callback" THEN output
                       ELSE [output EXCEPT ![t] =
                                inclusive_items(include_prefix(t, v, input[t][1]),
                                                input[t], ItemsPerThread)]
         [] cfg.form = "array" /\ cfg.kind = "exclusive" /\ cfg.extra # "callback" ->
              \E v \in exclusive_scan_impl_init(t) :
                 /\ thread_input' = [thread_input EXCEPT ![t] = v]
                 /\ output' = [output EXCEPT ![t] =
                                  exclusive_items(IF t = 0 THEN init ELSE v,
                                                  input[t], ItemsPerThread)]
         [] cfg.form = "array" /\ cfg.kind = "exclusive" /\ cfg.extra = "callback" ->
              /\ \E v \in exclusive_scan_impl(t, thread_input[t]) :
                    thread_input' = [thread_input EXCEPT ![t] = v]
              /\ UNCHANGED output
    /\ pc' = [pc EXCEPT ![t] =
                 CASE cfg.extra = "plain"     -> "done"
                   [] cfg.extra = "reduction" -> "red"
                   [] cfg.extra = "callback"  -> "arg"]
    /\ UNCHANGED <<cfg, input, storage, thread_reduction, reduction,
                   block_prefix, cb_calls, cb_arg>>
    /\ accessed' = accessed \cup reads(t, read_back_slots(t))
    /\ UNCHANGED idxVars

\* reduction = storage.threads[index(BlockSize - 1)], the last statement of
\* the variants that report the reduction.
SaveReduction(t) ==
    /\ pc[t] = "red"
    /\ \E v \in load(reduction_slot) :
          reduction' = [reduction EXCEPT ![t] = v]
    /\ pc' = [pc EXCEPT ![t] = "done"]
    /\ UNCHANGED <<cfg, input, storage, thread_input, thread_reduction, output,
                   block_prefix, cb_calls, cb_arg>>
    /\ accessed' = accessed \cup reads(t, {reduction_slot})
    /\ UNCHANGED idxVars

\* The slot of the block reduction the callback variants pass to
\* get_block_prefix: storage.threads[index(BlockSize - 1)].
block_reduction_slot_unpadded == BlockSize - 1

block_reduction_slot == index(BlockSize - 1)

\* The callback variants read the block reduction they pass to get_block_prefix.
ReadBlockReduction(t) ==
    /\ pc[t] = "arg"
    /\ \E v \in load(block_reduction_slot) :
          reduction' = [reduction EXCEPT ![t] = v]
    /\ pc' = [pc EXCEPT ![t] = "cb"]
    /\ UNCHANGED <<cfg, input, storage, thread_input, thread_reduction, output,
                   block_prefix, cb_calls, cb_arg>>
    /\ accessed' = accessed \cup reads(t, {block_reduction_slot})
    /\ UNCHANGED idxVars

\* if(flat_tid == 0) storage.threads[0] = block_prefix;
writes_block_prefix_any(flat_tid) == TRUE

writes_block_prefix(flat_tid) == flat_tid = 0

\* get_block_prefix up to its syncthreads():
\* if(warp_id == 0) { block_prefix = prefix_callback_op(reduction); if(flat_tid == 0) ... }
InvokeCallback_into_reduction_slot(t) ==
    /\ pc[t] = "cb"
    /\ IF warp_id(t) = 0
       THEN /\ cb_calls' = [cb_calls EXCEPT ![t] = @ + 1]
            /\ cb_arg' = [cb_arg EXCEPT ![t] = reduction[t]]
            /\ storage' = IF writes_block_prefix(t)
                          THEN store(storage, block_reduction_slot,
                                     prefix_callback_op(t, reduction[t]))
                          ELSE storage
       ELSE UNCHANGED <<cb_calls, cb_arg, storage>>
    /\ pc' = [pc EXCEPT ![t] = "b3"]
    /\ UNCHANGED <<cfg, input, thread_input, thread_reduction, output, reduction,
                   block_prefix>>
    /\ accessed' = accessed \cup
          (IF warp_id(t) = 0 /\ writes_block_prefix(t)
           THEN writes(t, {block_reduction_slot}) ELSE {})
    /\ UNCHANGED idxVars

InvokeCallback(t) ==
    /\ pc[t] = "cb"
    /\ IF warp_id(t) = 0
       THEN /\ cb_calls' = [cb_calls EXCEPT ![t] = @ + 1]
            /\ cb_arg' = [cb_arg EXCEPT ![t] = reduction[t]]
            /\ storage' = IF writes_block_prefix(t)
                          THEN store(storage, 0, prefix_callback_op(t, reduction[t]))
                          ELSE storage
       ELSE UNCHANGED <<cb_calls, cb_arg, storage>>
    /\ pc' = [pc EXCEPT ![t] = "b3"]
    /\ UNCHANGED <<cfg, input, thread_input, thread_reduction, output, reduction,
                   block_prefix>>
    /\ accessed' = accessed \cup
          (IF warp_id(t) = 0 /\ writes_block_prefix(t) THEN writes(t, {0}) ELSE {})
    /\ UNCHANGED idxVars

\* The syncthreads() of get_block_prefix.
Barrier3 ==
    /\ \A t \in Threads : pc[t] = "b3"
    /\ pc' = [t \in Threads |-> "bcast"]
    /\ UNCHANGED <<cfg, input, storage, thread_input, thread_reduction, output,
                   reduction, block_prefix, cb_calls, cb_arg>>
    /\ accessed' = {}
    /\ UNCHANGED idxVars

\* return storage.threads[0]; and the rest of the callback variant.
IncludeBlockPrefix(t) ==
    /\ pc[t] = "bcast"
    /\ \E bp \in load(0) :
          /\ block_prefix' = [block_prefix EXCEPT ![t] = bp]
          /\ output' = [output EXCEPT ![t] =
                CASE cfg.form = "scalar" /\ cfg.kind = "inclusive" ->
                       << scan_op(bp, output[t][1]) >>
                  [] cfg.form = "scalar" /\ cfg.kind = "exclusive" ->
                       << IF t = 0 THEN bp ELSE scan_op(bp, output[t][1]) >>
                  [] cfg.form = "array" /\ cfg.kind = "inclusive" ->
                       inclusive_items(
                           scan_op(bp, include_prefix(t, thread_input[t], input[t][1])),
                           input[t], ItemsPerThread)
                  [] cfg.form = "array" /\ cfg.kind = "exclusive" ->
                       exclusive_items(
                           IF t = 0 THEN bp ELSE scan_op(bp, thread_input[t]),
                           input[t], ItemsPerThread)]
    /\ pc' = [pc EXCEPT ![t] = "done"]
    /\ UNCHANGED <<cfg, input, storage, thread_input, thread_reduction, reduction,
                   cb_calls, cb_arg>>
    /\ accessed' = accessed \cup reads(t, {0})
    /\ UNCHANGED idxVars

Next ==
    \/ \E t \in Threads : Stage(t)
    \/ Barrier1
    \/ \E t \in Threads : LeaderReduce(t)
    \/ WarpScan
    \/ \E t \in Threads : LeaderPropagate(t)
    \/ Barrier2
    \/ \E t \in Threads : ReadBack(t)
    \/ \E t \in Threads : SaveReduction(t)
    \/ \E t \in Threads : ReadBlockReduction(t)
    \/ \E t \in Threads : InvokeCallback(t)
    \/ Barrier3
    \/ \E t \in Threads : IncludeBlockPrefix(t)

Spec == Init /\ [][Next]_vars

\* The same calls when get_lds_banks_no() may return any number of banks.
BanksConfigs ==
    {c \in [BlockSize : 1..MaxBlockSize, ItemsPerThread : 1..MaxItems,
            warp_size : WarpSizes, banks_no_ : 1..MaxBanks,
            kind : {"inclusive", "exclusive"}, form : {"scalar", "array"},
            extra : {"plain", "reduction", "callback"}] :
        c.form = "scalar" => c.ItemsPerThread = 1}

InitBanks == InitOf(BanksConfigs)

SpecBanks == InitBanks /\ [][Next]_vars

\* The scheduler runs every thread that is not waiting at a barrier, and a
\* barrier releases the group once every thread has arrived.
FairSpec == Init /\ [][Next]_vars /\ WF_vars(Next)

\* ------------------------------------------------------------------ what the scans are defined to give
AllDone == \A t \in Threads : pc[t] = "done"

\* The position of thread t's item i (1-based) in the group's flattened input,
\* and the input value at flattened position k.
position(t, i) == t * ItemsPerThread + i - 1
value_at(k) == input[k \div ItemsPerThread][(k % ItemsPerThread) + 1]
last_position == BlockSize * ItemsPerThread - 1

RECURSIVE fold_to(_)
\* fold(scan_op, v_0..v_k)
fold_to(k) == IF k = 0 THEN value_at(0) ELSE scan_op(fold_to(k - 1), value_at(k))

RECURSIVE fold_from(_, _)
\* fold(scan_op, seed, v_0..v_{k-1})
fold_from(seed, k) ==
    IF k = 0 THEN seed ELSE scan_op(fold_from(seed, k - 1), value_at(k - 1))

block_total == fold_to(last_position)

\* What thread 0's callback invocation returns for the group total.
returned_prefix == prefix_callback_op(0, block_total)

HasCallback == cfg.extra = "callback"

\* ------------------------------------------------------------------ claims
\* C1: inclusive_scan without a callback, scalar or array form: the output at
\* flattened position k is fold(scan_op, v_0..v_k) in the original order,
\* whatever the interleaving of the threads between the barriers.
C1_InclusiveScan ==
    \A t \in Threads :
        (pc[t] = "done" /\ cfg.kind = "inclusive" /\ ~HasCallback) =>
            \A i \in 1..ItemsPerThread : output[t][i] = fold_to(position(t, i))

\* C1 witness: an array inclusive_scan of three threads with two items each,
\* two leaders, has returned on every thread.
C1_Witness ==
    /\ AllDone /\ cfg.kind = "inclusive" /\ ~HasCallback
    /\ cfg.form = "array" /\ ItemsPerThread = 2
    /\ BlockSize = 3 /\ warp_size = 2

\* C2: exclusive_scan with init: the output at flattened position 0 is init
\* and at position k > 0 it is fold(scan_op, init, v_0..v_{k-1}).
C2_ExclusiveScan ==
    \A t \in Threads :
        (pc[t] = "done" /\ cfg.kind = "exclusive" /\ ~HasCallback) =>
            \A i \in 1..ItemsPerThread :
                output[t][i] = fold_from(init, position(t, i))

\* C2 witness: an array exclusive_scan with init of three threads with two
\* items each has returned on every thread.
C2_Witness ==
    /\ AllDone /\ cfg.kind = "exclusive" /\ ~HasCallback
    /\ cfg.form = "array" /\ ItemsPerThread = 2
    /\ BlockSize = 3 /\ warp_size = 2

\* C3: the reduction a thread reports is fold(scan_op, v_0..v_{n-1}) over all
\* the group's inputs in order; init is not part of it.
C3_Reduction ==
    \A t \in Threads :
        (pc[t] = "done" /\ cfg.extra = "reduction") => reduction[t] = block_total

\* C3 witness: an exclusive_scan with init that reports the reduction has
\* returned on all three threads.
C3_Witness ==
    /\ AllDone /\ cfg.extra = "reduction" /\ cfg.kind = "exclusive"
    /\ BlockSize = 3 /\ reduction[0] # Uninit

\* C4: inclusive_scan with a callback that returns P: the output at flattened
\* position k is scan_op(P, fold(scan_op, v_0..v_k)).
C4_InclusiveWithPrefix ==
    \A t \in Threads :
        (pc[t] = "done" /\ cfg.kind = "inclusive" /\ HasCallback) =>
            \A i \in 1..ItemsPerThread :
                output[t][i] = scan_op(returned_prefix, fold_to(position(t, i)))

\* C5: exclusive_scan with a callback that returns P: the output at flattened
\* position 0 is P and at position k > 0 it is fold(scan_op, P, v_0..v_{k-1}),
\* whatever the interleaving of the threads between the barriers.
C5_ExclusiveWithPrefix ==
    \A t \in Threads :
        (pc[t] = "done" /\ cfg.kind = "exclusive" /\ HasCallback) =>
            \A i \in 1..ItemsPerThread :
                output[t][i] = fold_from(returned_prefix, position(t, i))

C7_CallbackArgument ==
    \A t \in Threads : cb_calls[t] > 0 => cb_arg[t] = block_total

\* C7 witness: with BlockSize = 1 thread 0 has invoked the callback and put the
\* prefix into slot 0, where the total was.
C7_Witness ==
    /\ BlockSize = 1 /\ cb_calls[0] = 1 /\ storage[0] = returned_prefix

\* C8: the block prefix a thread gets from get_block_prefix is the value thread
\* 0's callback invocation returned: no thread reads slot 0 as the prefix before
\* thread 0 has written it.
C8_BlockPrefixVisible ==
    \A t \in Threads :
        (HasCallback /\ pc[t] = "done") => block_prefix[t] = returned_prefix

\* C8 witness: a thread other than thread 0, in thread 0's hardware warp, has
\* got its block prefix.
C8_Witness ==
    /\ HasCallback /\ BlockSize >= 2 /\ warp_size >= 2
    /\ pc[1] = "done" /\ block_prefix[1] # Uninit

\* ------------------------------------------------------------------ flat ids of a 3-dimensional group
\* detail::flat_block_size(): group_size(2) * group_size(1) * group_size(0)
flat_block_size(gs) == gs[3] * gs[2] * gs[1]

\* detail::flat_thread_id():
\* group_size(2) * group_size(1) * workitem_id(2) + group_size(0) * workitem_id(1) + workitem_id(0)
flat_thread_id(gs, wi) == (gs[3] * gs[2] * wi[3]) + (gs[1] * wi[2]) + wi[1]

GroupShapes == (1..MaxDim) \X (1..MaxDim) \X (1..MaxDim)

WorkItems(gs) == (0..(gs[1] - 1)) \X (0..(gs[2] - 1)) \X (0..(gs[3] - 1))

IdleCfg == [BlockSize |-> 1, ItemsPerThread |-> 1, warp_size |-> 1,
            banks_no_ |-> 1, kind |-> "inclusive", form |-> "scalar",
            extra |-> "plain"]

\* A group of any shape and two of its work-items, before they ask for their ids.
InitIdx ==
    /\ group_size \in GroupShapes
    /\ workitem_a \in WorkItems(group_size)
    /\ workitem_b \in WorkItems(group_size)
    /\ flat_a = -1
    /\ flat_b = -1
    /\ cfg = IdleCfg
    /\ input = [t \in {0} |-> <<Uninit>>]
    /\ storage = [i \in {0} |-> Uninit]
    /\ pc = [t \in {0} |-> "done"]
    /\ thread_input = [t \in {0} |-> Uninit]
    /\ thread_reduction = [t \in {0} |-> Uninit]
    /\ output = [t \in {0} |-> <<Uninit>>]
    /\ reduction = [t \in {0} |-> Uninit]
    /\ block_prefix = [t \in {0} |-> Uninit]
    /\ cb_calls = [t \in {0} |-> 0]
    /\ cb_arg = [t \in {0} |-> Uninit]
    /\ accessed = {}

\* Work-item a calls flat_thread_id().
FlatThreadIdA ==
    /\ flat_a = -1
    /\ flat_a' = flat_thread_id(group_size, workitem_a)
    /\ UNCHANGED <<group_size, workitem_a, workitem_b, flat_b>>
    /\ UNCHANGED scanVars

\* Work-item b calls flat_thread_id().
FlatThreadIdB ==
    /\ flat_b = -1
    /\ flat_b' = flat_thread_id(group_size, workitem_b)
    /\ UNCHANGED <<group_size, workitem_a, workitem_b, flat_a>>
    /\ UNCHANGED scanVars

NextIdx == FlatThreadIdA \/ FlatThreadIdB

SpecIdx == InitIdx /\ [][NextIdx]_vars

\* C9: in a group of shape (s0, s1, s2) every work-item's flat_thread_id() lies
\* in [0, flat_block_size()), and two different work-items never get the same
\* flat_thread_id().
C9_FlatIdUniqueInRange ==
    /\ flat_a # -1 => (flat_a >= 0 /\ flat_a < flat_block_size(group_size))
    /\ flat_b # -1 => (flat_b >= 0 /\ flat_b < flat_block_size(group_size))
    /\ (flat_a # -1 /\ flat_b # -1 /\ workitem_a # workitem_b) => flat_a # flat_b

\* ------------------------------------------------------------------ the call at sub-group width 1
\* With warp_size() = 1 thread 0 is the only leader and walks all BlockSize
\* slots in order: slot t ends as the running combination of the staged scalars.
staged_scalar(t) ==
    IF cfg.form = "scalar" THEN input[t][1]
    ELSE reduce_items(input[t], ItemsPerThread)

RECURSIVE width_one_scan(_)
width_one_scan(t) ==
    IF t = 0 THEN staged_scalar(0)
    ELSE scan_op(width_one_scan(t - 1), staged_scalar(t))

\* The variants in which thread 0 may put the block prefix into slot 0 while
\* thread 1 has yet to read its predecessor's value from it.
ReusesSlotZeroEarly ==
    HasCallback /\ ~(cfg.form = "scalar" /\ cfg.kind = "inclusive")

\* What thread 1 may read from slot 0 as its predecessor's value.
width_one_slot_zero ==
    {width_one_scan(0)} \cup (IF ReusesSlotZeroEarly THEN {returned_prefix} ELSE {})

\* The output of thread t at width 1 when it read pred as its predecessor's value.
width_one_output(t, pred) ==
    LET bp == returned_prefix
    IN CASE cfg.form = "scalar" /\ cfg.kind = "inclusive" ->
              << IF HasCallback THEN scan_op(bp, width_one_scan(t))
                 ELSE width_one_scan(t) >>
         [] cfg.form = "scalar" /\ cfg.kind = "exclusive" ->
              << IF HasCallback
                 THEN (IF t = 0 THEN bp ELSE scan_op(bp, pred))
                 ELSE (IF t = 0 THEN init ELSE scan_op(init, pred)) >>
         [] cfg.form = "array" /\ cfg.kind = "inclusive" ->
              inclusive_items(
                  IF HasCallback
                  THEN scan_op(bp, include_prefix(t, pred, input[t][1]))
                  ELSE include_prefix(t, pred, input[t][1]),
                  input[t], ItemsPerThread)
         [] cfg.form = "array" /\ cfg.kind = "exclusive" ->
              exclusive_items(
                  IF HasCallback
                  THEN (IF t = 0 THEN bp ELSE scan_op(bp, pred))
                  ELSE (IF t = 0 THEN init ELSE scan_op(init, pred)),
                  input[t], ItemsPerThread)

\* C10: at every power-of-two warp_size() the outputs and the reported
\* reduction of a call are those the same call gives at warp_size() = 1, where
\* thread 0 alone scans the slots in order (in the variants that reuse slot 0
\* early, for either value thread 1 may find there).
C10_WidthIndependent ==
    AllDone =>
        \E first \in width_one_slot_zero :
            \A t \in Threads :
                /\ output[t] = width_one_output(
                                   t, IF t = 0 THEN Uninit
                                      ELSE IF t = 1 THEN first
                                      ELSE width_one_scan(t - 1))
                /\ cfg.extra = "reduction" =>
                       reduction[t] = width_one_scan(BlockSize - 1)

\* C10 witness: a call that reports the reduction has returned on three threads
\* served by two leaders of two slots each.
C10_Witness ==
    /\ AllDone /\ cfg.extra = "reduction" /\ BlockSize = 3 /\ warp_size = 2
    /\ thread_reduction_size_ = 2

\* ------------------------------------------------------------------ identity mapping
\* The same call on a scratch buffer addressed without padding (index(n) = n):
\* slot n of the warp_size_ * thread_reduction_size_ slots after staging, where
\* the slots no thread stages hold g.
identity_staged(g) ==
    [n \in 0..(warp_size_ * thread_reduction_size_ - 1) |->
        IF n < BlockSize THEN staged_scalar(n) ELSE g]

RECURSIVE identity_reduce(_, _, _)
\* thread_reduction of the leader that walks the n slots from i on.
identity_reduce(st, i, n) ==
    IF n = 1 THEN st[i]
    ELSE scan_op(identity_reduce(st, i, n - 1), st[i + n - 1])

\* The leaders' carried prefixes: warp scan of the reductions, shifted up by one.
identity_prefix(st) ==
    LET reduced == [l \in 0..(warp_size_ - 1) |->
                       identity_reduce(st, l * thread_reduction_size_,
                                       thread_reduction_size_)]
        scanned == warp_scan_shuffle(reduced, 1, warp_size_)
    IN  warp_shuffle_up(scanned, 1, warp_size_)

RECURSIVE identity_propagate(_, _, _, _)
\* The value the leader of slot n's range leaves in slot n, its range
\* starting at slot i with the carried value first.
identity_propagate(st, first, i, n) ==
    IF n = i THEN first
    ELSE scan_op(identity_propagate(st, first, i, n - 1), st[n])

\* The scratch buffer after the second barrier.
identity_scanned(g) ==
    LET st     == identity_staged(g)
        prefix == identity_prefix(st)
    IN  [n \in DOMAIN st |->
            LET l == n \div thread_reduction_size_
                i == l * thread_reduction_size_
            IN  identity_propagate(
                    st, include_warp_prefix(l, prefix[l], st[i], st[i]), i, n)]

\* The block prefix thread 0 broadcasts.
identity_block_prefix(g) ==
    prefix_callback_op(0, identity_scanned(g)[BlockSize - 1])

\* What thread 1 may find in slot 0 as its predecessor's value.
identity_slot_zero(g) ==
    {identity_scanned(g)[0]} \cup
    (IF ReusesSlotZeroEarly THEN {identity_block_prefix(g)} ELSE {})

\* The output of thread t when it read pred as its predecessor's value.
identity_output(g, t, pred) ==
    LET bp  == identity_block_prefix(g)
        own == identity_scanned(g)[t]
        ex  == IF HasCallback
               THEN (IF t = 0 THEN bp ELSE scan_op(bp, pred))
               ELSE (IF t = 0 THEN init ELSE scan_op(init, pred))
    IN CASE cfg.form = "scalar" /\ cfg.kind = "inclusive" ->
              << IF HasCallback THEN scan_op(bp, own) ELSE own >>
         [] cfg.form = "scalar" /\ cfg.kind = "exclusive" -> << ex >>
         [] cfg.form = "array" /\ cfg.kind = "inclusive" ->
              inclusive_items(
                  IF HasCallback
                  THEN scan_op(bp, include_prefix(t, pred, input[t][1]))
                  ELSE include_prefix(t, pred, input[t][1]),
                  input[t], ItemsPerThread)
         [] cfg.form = "array" /\ cfg.kind = "exclusive" ->
              exclusive_items(ex, input[t], ItemsPerThread)

\* The outputs and the reported reduction of the returned call are those of
\* the identity mapping.
SameAsIdentity ==
    \A g \in Garbage :
        \E first \in identity_slot_zero(g) :
            \A t \in Threads :
                /\ output[t] = identity_output(
                                   g, t, IF t = 0 THEN Uninit
                                         ELSE IF t = 1 THEN first
                                         ELSE identity_scanned(g)[t - 1])
                /\ cfg.extra = "reduction" =>
                       reduction[t] = identity_scanned(g)[BlockSize - 1]

\* C11 as stated: with padding enabled, for every banks_no_ >= 1, the outputs
\* and the reported reduction of a returned call are those the identity
\* mapping gives.
C11_PaddingIndependent ==
    (AllDone /\ has_bank_conflicts_) => SameAsIdentity

\* C11 amended: with padding enabled and banks_no_ a multiple of
\* thread_reduction_size_, the outputs and the reported reduction of a
\* returned call are those the identity mapping gives.
C11_PaddingIndependentAligned ==
    (AllDone /\ has_bank_conflicts_ /\ banks_no_ % thread_reduction_size_ = 0)
        => SameAsIdentity

\* C11 witness: a call has returned whose second leader's range is moved by a
\* pad slot (three threads, two leaders, two banks).
C11_Witness ==
    /\ AllDone /\ has_bank_conflicts_ /\ BlockSize = 3 /\ warp_size_ = 2
    /\ banks_no_ = 2 /\ idx_start(1) = 3 /\ bank_conflicts_padding > 0

\* ------------------------------------------------------------------ termination
\* C12: under fair scheduling every thread of the group eventually returns
\* from the call, so no thread stays blocked at a barrier.
C12_EveryThreadReturns == <>AllDone

\* C12 witness: a callback call (three barriers) has returned on three threads
\* of which thread 2 is neither a leader nor in warp 0.
C12_Witness ==
    /\ AllDone /\ HasCallback /\ BlockSize = 3 /\ warp_size = 2
    /\ 2 \notin Leaders /\ warp_id(2) # 0

\* ------------------------------------------------------------------ reuse of slot 0
\* The value thread t read as its predecessor's inclusive value, while t is
\* between that read and the third barrier.
predecessor_value(t) ==
    IF cfg.form = "scalar" THEN output[t][1] ELSE thread_input[t]

\* C13: in the callback variants whose threads read their predecessor's value
\* from scratch, thread 1 has read slot index(0) whenever thread 0 has written
\* the block prefix to slot 0, and the value thread 1 read is never the block
\* prefix.
C13_SlotZeroNotNeeded ==
    (ReusesSlotZeroEarly /\ BlockSize >= 2) =>
        /\ [thread |-> 0, slot |-> 0, write |-> TRUE] \in accessed
               => pc[1] # "read"
        /\ pc[1] \in {"arg", "cb", "b3"}
               => predecessor_value(1) # returned_prefix

\* ------------------------------------------------------------------ partial trailing run
\* The value defined for the scan at item i of thread t.
defined_output(t, i) ==
    IF cfg.kind = "inclusive"
    THEN (IF HasCallback THEN scan_op(returned_prefix, fold_to(position(t, i)))
          ELSE fold_to(position(t, i)))
    ELSE fold_from(IF HasCallback THEN returned_prefix ELSE init, position(t, i))

\* The tokens that only a slot no thread staged can contribute.
garbage_tokens == {g[1] : g \in Garbage}

\* C14: when BlockSize is not a multiple of warp_size(), every output of a
\* returned thread and the reduction it reports are the values defined for
\* the scan and hold nothing read from a slot that no thread staged.
C14_NonMultipleDefined ==
    (BlockSize % warp_size # 0) =>
        \A t \in Threads :
            pc[t] = "done" =>
                /\ \A i \in 1..ItemsPerThread :
                       /\ output[t][i] = defined_output(t, i)
                       /\ \A n \in DOMAIN output[t][i] :
                              output[t][i][n] \notin garbage_tokens
                /\ cfg.extra = "reduction" => reduction[t] = block_total

\* ------------------------------------------------------------------ leader interval
\* The group is between the first and the second barrier of inclusive_scan_base.
InLeaderInterval == \A t \in Threads : pc[t] \in {"reduce", "scan", "prop", "b2"}

\* The slots written during staging.
staged_slots == {index(t) : t \in Threads}

\* C15: every slot a leader reads during re-reduction or propagation was
\* written during staging by some thread of the group.
C15_LeaderReadsStaged ==
    InLeaderInterval =>
        \A a \in accessed : ~a.write => a.slot \in staged_slots

\* C16: between the first and the second barrier of inclusive_scan_base only
\* leaders (flat id < warp_size_) access the scratch buffer, the slot ranges
\* of two different leaders are disjoint, and no two threads access the same
\* slot with at least one of them writing.
C16_LeadersOnlyDisjoint ==
    InLeaderInterval =>
        /\ \A a \in accessed : a.thread < warp_size_
        /\ \A t, u \in Leaders :
               t # u => leader_range(t) \cap leader_range(u) = {}
        /\ \A a, b \in accessed :
               (a.thread # b.thread /\ a.slot = b.slot) => (~a.write /\ ~b.write)

\* C16 witness: two leaders have each read and rewritten a run of two slots and
\* a third thread waits at the second barrier.
C16_Witness ==
    /\ InLeaderInterval /\ BlockSize = 3 /\ warp_size_ = 2
    /\ thread_reduction_size_ = 2
    /\ pc[0] = "b2" /\ pc[1] = "b2"
    /\ \A t \in {0, 1} : \A i \in leader_range(t) :
           [thread |-> t, slot |-> i, write |-> TRUE] \in accessed

\* ------------------------------------------------------------------ scanned scratch
\* Every thread has passed the second barrier of inclusive_scan_base.
PastSecondBarrier ==
    \A t \in Threads : pc[t] \in {"read", "red", "arg", "cb", "b3", "bcast", "done"}

\* Thread 0 has overwritten slot 0 with the block prefix.
SlotZeroOverwritten == HasCallback /\ pc[0] \in {"b3", "bcast", "done"}

\* C17: once inclusive_scan_base has passed its second barrier, slot index(k)
\* holds fold(scan_op, s_0..s_k) of the staged scalars for every k < BlockSize,
\* until the prefix broadcast overwrites slot 0 (the slots other than slot 0
\* keep holding it afterwards).
C17_ScratchHoldsInclusiveScan ==
    PastSecondBarrier =>
        \A k \in Threads :
            (index(k) # 0 \/ ~SlotZeroOverwritten) =>
                storage[index(k)] = width_one_scan(k)

\* C17 witness: three threads passed the second barrier, slot index(2) holds
\* the scan of all three staged scalars and slot 0 still holds the first one
\* while thread 0 is about to invoke the callback.
C17_Witness ==
    /\ PastSecondBarrier /\ BlockSize = 3 /\ warp_size_ = 2 /\ HasCallback
    /\ pc[0] = "cb" /\ storage[0] = staged_scalar(0)
    /\ storage[index(2)] = scan_op(scan_op(staged_scalar(0), staged_scalar(1)),
                                   staged_scalar(2))

\* ------------------------------------------------------------------ raw walk
\* For every leader t that has walked its range and every
\* j < thread_reduction_size_ whose position t * thread_reduction_size_ + j is
\* below BlockSize, the j-th slot of the walk is the slot the thread at that
\* position staged.
RawWalkVisitsStaged ==
    \A t \in Leaders :
        pc[t] \in {"scan", "prop"} =>
            \A j \in 0..(thread_reduction_size_ - 1) :
                t * thread_reduction_size_ + j < BlockSize =>
                    index(t * thread_reduction_size_ + j) = idx_start(t) + j

\* C18 as stated: whenever padding is enabled, for every banks_no_, a leader's
\* walk over raw consecutive indices visits exactly the slots its threads staged.
C18_RawWalkEveryBanks == has_bank_conflicts_ => RawWalkVisitsStaged

\* C18 amended: whenever padding is enabled and banks_no_ is a multiple of
\* thread_reduction_size_, a leader's walk over raw consecutive indices visits
\* exactly the slots its threads staged.
C18_RawWalkAlignedBanks ==
    (has_bank_conflicts_ /\ banks_no_ % thread_reduction_size_ = 0)
        => RawWalkVisitsStaged

\* C18 witness: with two banks and runs of two slots, leader 1 has re-reduced
\* its run, which starts behind a pad slot at the slot thread 2 staged.
C18_Witness ==
    /\ has_bank_conflicts_ /\ banks_no_ = 2 /\ thread_reduction_size_ = 2
    /\ BlockSize = 3 /\ pc[1] = "scan"
    /\ idx_start(1) = 3 /\ storage[idx_start(1)] = staged_scalar(2)
    /\ [thread |-> 1, slot |-> index(2), write |-> FALSE] \in accessed

\* ------------------------------------------------------------------ bounds of the accesses
\* C19: every scratch index a thread reads or writes (staging slot, leader
\* range, predecessor slot, reduction slot, broadcast slot 0) is a slot of
\* storage.threads, below its length warp_size_ * thread_reduction_size_ +
\* bank_conflicts_padding; thread 0 reads no predecessor slot index(-1).
C19_AccessesInBounds ==
    /\ \A a \in accessed : a.slot >= 0 /\ a.slot < storage_length
    /\ \A a \in accessed : a.thread = 0 => a.slot # index(0 - 1)

\* C19 witness: in an exclusive_scan that reports the reduction, thread 0 has
\* returned having read only the reduction slot, the last slot of the buffer,
\* and thread 2 has read its predecessor's slot.
C19_Witness ==
    /\ cfg.kind = "exclusive" /\ cfg.extra = "reduction" /\ BlockSize = 3
    /\ pc[0] = "done" /\ reduction_slot = storage_length - 1
    /\ {a \in accessed : a.thread = 0} =
           {[thread |-> 0, slot |-> reduction_slot, write |-> FALSE]}
    /\ [thread |-> 2, slot |-> index(1), write |-> FALSE] \in accessed

\* ------------------------------------------------------------------ frame of get_block_prefix
\* Thread t takes a step of get_block_prefix.
InGetBlockPrefix(t) == pc[t] \in {"cb", "b3", "bcast"} /\ pc'[t] # pc[t]

\* C20: a step of get_block_prefix leaves every scratch slot other than slot 0
\* as it was, and a step that changes the scratch buffer is thread 0's store
\* of the block prefix.
C20_OnlySlotZeroByThreadZero ==
    [][\A t \in Threads :
          InGetBlockPrefix(t) =>
              /\ \A i \in DOMAIN storage : i # 0 => storage'[i] = storage[i]
              /\ storage' # storage => (t = 0 /\ pc[0] = "cb")]_vars

\* C20 witness: threads 0 and 1 of the first warp have invoked the callback,
\* slot 0 holds the block prefix thread 0 stored, and the slots of threads 1
\* and 2 hold what the scan left there.
C20_Witness ==
    /\ HasCallback /\ BlockSize = 3 /\ warp_size = 2
    /\ pc[0] = "b3" /\ pc[1] = "b3" /\ cb_calls[1] = 1
    /\ storage[0] = returned_prefix
    /\ storage[index(1)] = width_one_scan(1)
    /\ storage[index(2)] = width_one_scan(2)
    /\ {a \in accessed : a.write} = {[thread |-> 0, slot |-> 0, write |-> TRUE]}

\* ------------------------------------------------------------------ reuse of the scratch buffer
\* The same group calls a scan again on the same storage.  The caller either
\* places a syncthreads() between the two calls (sync_between) or does not.
ReuseConfigs ==
    {[BlockSize |-> c.BlockSize, ItemsPerThread |-> c.ItemsPerThread,
      warp_size |-> c.warp_size, banks_no_ |-> c.banks_no_, kind |-> c.kind,
      form |-> c.form, extra |-> c.extra, sync_between |-> b] :
        c \in Configs, b \in BOOLEAN}

InitReuse == InitOf(ReuseConfigs)

Returned_past_last_barrier(t) ==
    \/ pc[t] \in {"done", "next"}
    \/ HasCallback /\ pc[t] = "bcast"
    \/ ~HasCallback /\ pc[t] \in {"read", "red"}

\* Thread t has returned from the first call.
Returned(t) == pc[t] \in {"done", "next"}

\* The scalar thread t stages in the next call.
next_call_input(t) == << 20 + t >>

\* Thread t may enter the next call: it has returned from the first one and,
\* when the caller synchronizes between the calls, so has every other thread.
starts_next_call(t) ==
    /\ pc[t] = "done"
    /\ cfg.sync_between => \A u \in Threads : Returned(u)

\* The next call of thread t up to its first syncthreads():
\* storage.threads[index(flat_tid)] = input.  The barrier releases no thread
\* before every thread has returned from the first call.
StageNext(t) ==
    /\ starts_next_call(t)
    /\ storage' = store(storage, index(t), next_call_input(t))
    /\ pc' = [pc EXCEPT ![t] = "next"]
    /\ UNCHANGED <<cfg, input, thread_input, thread_reduction, output, reduction,
                   block_prefix, cb_calls, cb_arg>>
    /\ accessed' = accessed \cup writes(t, {index(t)})
    /\ UNCHANGED idxVars

NextReuse ==
    \/ Next
    \/ \E t \in Threads : StageNext(t)

SpecReuse == InitReuse /\ [][NextReuse]_vars

\* Every thread holds the outputs, the reduction and the block prefix of the
\* first call run alone (in the variants that reuse slot 0 early, for either
\* value thread 1 may find there).
FirstCallResults ==
    \E first \in width_one_slot_zero :
        \A t \in Threads :
            /\ output[t] = width_one_output(
                               t, IF t = 0 THEN Uninit
                                  ELSE IF t = 1 THEN first
                                  ELSE width_one_scan(t - 1))
            /\ cfg.extra = "reduction" =>
                   reduction[t] = width_one_scan(BlockSize - 1)
            /\ HasCallback => block_prefix[t] = returned_prefix

\* C21 as stated: whether or not a barrier separates the two calls, once every
\* thread has returned from the first call its outputs, reduction and block
\* prefix are those defined for the first call.
C21_ReuseWithoutBarrier ==
    (\A t \in Threads : Returned(t)) => FirstCallResults

\* C21 amended: when a barrier separates the two calls, once every thread has
\* returned from the first call its outputs, reduction and block prefix are
\* those defined for the first call, also after threads have staged the
\* inputs of the next call in the scratch buffer.
C21_ReuseAfterBarrier ==
    (cfg.sync_between /\ \A t \in Threads : Returned(t)) => FirstCallResults

\* C21 witness: behind a barrier between the calls, all three threads of a
\* call that reports the reduction have staged the inputs of the next call
\* over the first call's scratch contents.
C21_Witness ==
    /\ cfg.sync_between /\ BlockSize = 3 /\ cfg.extra = "reduction"
    /\ \A t \in Threads : pc[t] = "next"
    /\ \A t \in Threads : storage[index(t)] = next_call_input(t)
    /\ reduction[0] = block_total

\* ------------------------------------------------------------------ output array = input array
\* The array forms, called with an output array that is either the caller's
\* input array itself (same_array) or a distinct one.
AliasConfigs ==
    {[BlockSize |-> c.BlockSize, ItemsPerThread |-> c.ItemsPerThread,
      warp_size |-> c.warp_size, banks_no_ |-> c.banks_no_, kind |-> c.kind,
      form |-> c.form, extra |-> c.extra, same_array |-> b] :
        c \in {d \in Configs : d.form = "array"}, b \in BOOLEAN}

InitAlias == InitOf(AliasConfigs)

\* A thread's two array parameters as the final loops see them: m.in is the
\* content of input[], m.out that of output[].
arrays_at_call(items) ==
    [in  |-> items,
     out |-> IF cfg.same_array THEN items ELSE [i \in DOMAIN items |-> Uninit]]

\* output[i] = v: when output is the input array, input[i] holds v as well.
write_output(m, i, v) ==
    IF cfg.same_array
    THEN [in |-> [m.in EXCEPT ![i] = v], out |-> [m.out EXCEPT ![i] = v]]
    ELSE [in |-> m.in, out |-> [m.out EXCEPT ![i] = v]]

RECURSIVE inclusive_loop(_, _, _)
\* for(i = 1; i < ItemsPerThread; i++) output[i] = scan_op(output[i-1], input[i]);
\* (items are numbered from 1 here)
inclusive_loop(m, i, n) ==
    IF i > n THEN m
    ELSE inclusive_loop(write_output(m, i, scan_op(m.out[i - 1], m.in[i])),
                        i + 1, n)

RECURSIVE exclusive_loop_reads_late(_, _, _, _, _)
exclusive_loop_reads_late(m, exclusive, prev, i, n) ==
    IF i > n THEN m
    ELSE LET next    == scan_op(exclusive, m.in[i - 1])
             written == write_output(m, i, next)
         IN  exclusive_loop_reads_late(written, next, written.in[i], i + 1, n)

RECURSIVE exclusive_loop(_, _, _, _, _)
\* for(i = 1; i < ItemsPerThread; i++)
\*     { exclusive = scan_op(exclusive, prev); prev = input[i]; output[i] = exclusive; }
exclusive_loop(m, exclusive, prev, i, n) ==
    IF i > n THEN m
    ELSE LET next == scan_op(exclusive, prev)
         IN  exclusive_loop(write_output(m, i, next), next, m.in[i], i + 1, n)

\* output[0] = flat_tid == 0 ? input[0] : scan_op(thread_input, input[0]);
\* [output[0] = scan_op(block_prefix, output[0]);]  then the final loop.
inclusive_scan_arrays(flat_tid, prefix, with_block_prefix, bp, items) ==
    LET m0 == arrays_at_call(items)
        m1 == write_output(m0, 1, include_prefix(flat_tid, prefix, m0.in[1]))
        m2 == IF with_block_prefix
              THEN write_output(m1, 1, scan_op(bp, m1.out[1]))
              ELSE m1
    IN  inclusive_loop(m2, 2, Len(items)).out

\* T prev = input[0]; output[0] = exclusive; then the final loop.
exclusive_scan_arrays(exclusive, items) ==
    LET m0   == arrays_at_call(items)
        prev == m0.in[1]
        m1   == write_output(m0, 1, exclusive)
    IN  exclusive_loop(m1, exclusive, prev, 2, Len(items)).out

\* ReadBack of the array forms on the caller's arrays.
ReadBackArrays(t) ==
    /\ pc[t] = "read"
    /\ CASE cfg.kind = "inclusive" ->
              \E v \in exclusive_scan_impl(t, thread_input[t]) :
                 /\ thread_input' = [thread_input EXCEPT ![t] = v]
                 /\ output' =
                       IF cfg.extra = "callback" THEN output
                       ELSE [output EXCEPT ![t] =
                                inclusive_scan_arrays(t, v, FALSE, Uninit, input[t])]
         [] cfg.kind = "exclusive" /\ cfg.extra # "callback" ->
              \E v \in exclusive_scan_impl_init(t) :
                 /\ thread_input' = [thread_input EXCEPT ![t] = v]
                 /\ output' = [output EXCEPT ![t] =
                                  exclusive_scan_arrays(IF t = 0 THEN init ELSE v,
                                                        input[t])]
         [] cfg.kind = "exclusive" /\ cfg.extra = "callback" ->
              /\ \E v \in exclusive_scan_impl(t, thread_input[t]) :
                    thread_input' = [thread_input EXCEPT ![t] = v]
              /\ UNCHANGED output
    /\ pc' = [pc EXCEPT ![t] =
                 CASE cfg.extra = "plain"     -> "done"
                   [] cfg.extra = "reduction" -> "red"
                   [] cfg.extra = "callback"  -> "arg"]
    /\ UNCHANGED <<cfg, input, storage, thread_reduction, reduction,
                   block_prefix, cb_calls, cb_arg>>
    /\ accessed' = accessed \cup reads(t, read_back_slots(t))
    /\ UNCHANGED idxVars

\* The end of the array forms with a callback on the caller's arrays.
IncludeBlockPrefixArrays(t) ==
    /\ pc[t] = "bcast"
    /\ \E bp \in load(0) :
          /\ block_prefix' = [block_prefix EXCEPT ![t] = bp]
          /\ output' = [output EXCEPT ![t] =
                IF cfg.kind = "inclusive"
                THEN inclusive_scan_arrays(t, thread_input[t], TRUE, bp, input[t])
                ELSE exclusive_scan_arrays(
                         IF t = 0 THEN bp ELSE scan_op(bp, thread_input[t]),
                         input[t])]
    /\ pc' = [pc EXCEPT ![t] = "done"]
    /\ UNCHANGED <<cfg, input, storage, thread_input, thread_reduction, reduction,
                   cb_calls, cb_arg>>
    /\ accessed' = accessed \cup reads(t, {0})
    /\ UNCHANGED idxVars

NextAlias ==
    \/ \E t \in Threads : Stage(t)
    \/ Barrier1
    \/ \E t \in Threads : LeaderReduce(t)
    \/ WarpScan
    \/ \E t \in Threads : LeaderPropagate(t)
    \/ Barrier2
    \/ \E t \in Threads : ReadBackArrays(t)
    \/ \E t \in Threads : SaveReduction(t)
    \/ \E t \in Threads : ReadBlockReduction(t)
    \/ \E t \in Threads : InvokeCallback(t)
    \/ Barrier3
    \/ \E t \in Threads : IncludeBlockPrefixArrays(t)

SpecAlias == InitAlias /\ [][NextAlias]_vars

\* What thread t's output array holds after the call when it is distinct from
\* the input array, for the values the thread read from the scratch buffer.
distinct_arrays_output(t) ==
    IF cfg.kind = "inclusive"
    THEN inclusive_items(
             IF HasCallback
             THEN scan_op(block_prefix[t],
                          include_prefix(t, thread_input[t], input[t][1]))
             ELSE include_prefix(t, thread_input[t], input[t][1]),
             input[t], ItemsPerThread)
    ELSE exclusive_items(
             IF HasCallback
             THEN (IF t = 0 THEN block_prefix[t]
                   ELSE scan_op(block_prefix[t], thread_input[t]))
             ELSE (IF t = 0 THEN init ELSE thread_input[t]),
             input[t], ItemsPerThread)

RECURSIVE warp_scan_steps(_, _)
\* The number of exchanges of the sub-group scan: one per offset 1, 2, 4, ... < width.
warp_scan_steps(offset, width) ==
    IF offset >= width THEN 0 ELSE 1 + warp_scan_steps(2 * offset, width)

RECURSIVE lane_fold(_, _)
\* fold(scan_op, v_0..v_i) over the lanes' values in lane order.
lane_fold(vals, i) ==
    IF i = 0 THEN vals[0] ELSE scan_op(lane_fold(vals, i - 1), vals[i])

\* The values the lanes of the logical warp bring to the sub-group scan.
lane_values ==
    [l \in 0..(warp_size_ - 1) |->
        IF l \in Leaders THEN thread_reduction[l] ELSE Uninit]

\* C23: when the leaders take the sub-group scan, it runs log2(warp_size_)
\* exchanges and leaves at every lane i the value fold(scan_op, v_0..v_i) of
\* the lanes' values in lane order, and after the shift by one lane every
\* leader i > 0 holds fold(scan_op, v_0..v_{i-1}).
C23_SubGroupScan ==
    [][((\A t \in Leaders : pc[t] = "scan") /\ (\A t \in Leaders : pc'[t] = "prop"))
          => /\ Pow2(warp_scan_steps(1, warp_size_)) = warp_size_
             /\ \A i \in 0..(warp_size_ - 1) :
                    warp_scan_shuffle(lane_values, 1, warp_size_)[i]
                        = lane_fold(lane_values, i)
             /\ \A i \in Leaders :
                    i > 0 => thread_reduction'[i] = lane_fold(lane_values, i - 1)]_vars

\* C23 witness: three leaders on a logical warp of four lanes have taken the
\* scan and the shift; leader 2 holds the first two lanes' values in order and
\* leader 1 the first lane's.
C23_Witness ==
    /\ warp_size_ = 4 /\ BlockSize = 3 /\ \A t \in Leaders : pc[t] = "prop"
    /\ staged_scalar(0) # staged_scalar(1)
    /\ thread_reduction[1] = staged_scalar(0)
    /\ thread_reduction[2] = scan_op(staged_scalar(0), staged_scalar(1))

====
